---- MODULE Spec2Model ----
(***************************************************************************)
(* Model of the Diffbot MCP server (src/diffbot_mcp_server.py): the two    *)
(* tools dql_search and enhance_entity (with its wrappers), each a         *)
(* coroutine that validates its arguments, builds a query-parameter        *)
(* mapping, awaits one HTTP GET and formats the JSON body as text.         *)
(*                                                                         *)
(* Text is modelled as TLA+ strings, byte for byte; a JSON value is a      *)
(* tagged record; a raised exception is its Python class and message.     *)
(***************************************************************************)
EXTENDS Integers, Sequences, FiniteSets, TLC

VARIABLES pc, tool, args, inflight, sent, resp, result, stdout

vars == <<pc, tool, args, inflight, sent, resp, result, stdout>>

(***************************************************************************)
(* JSON / Python values.  Every value is a record with a tag t and one     *)
(* payload field whose name depends on the tag.                            *)
(***************************************************************************)
None == [t |-> "null"]
BoolV(b) == [t |-> "bool", b |-> b]
IntV(n) == [t |-> "int", n |-> n]
\* a float, held as an integer count of 1/10000
FloatV(f) == [t |-> "float", f |-> f]
Str(s) == [t |-> "str", s |-> s]
List(l) == [t |-> "list", l |-> l]
\* a dict is the sequence of its <<key, value>> items in insertion order
Dict(d) == [t |-> "dict", d |-> d]

IsDict(v) == v.t = "dict"
IsList(v) == v.t = "list"
IsStr(v) == v.t = "str"

\* Python truth value of v
Truthy(v) ==
  CASE v.t = "null" -> FALSE
    [] v.t = "bool" -> v.b
    [] v.t = "int" -> v.n # 0
    [] v.t = "float" -> v.f # 0
    [] v.t = "str" -> v.s # ""
    [] v.t = "list" -> v.l # <<>>
    [] v.t = "dict" -> v.d # <<>>

\* key in d, for a dict d (FALSE for any other value)
HasKey(v, k) == IsDict(v) /\ \E i \in 1..Len(v.d) : v.d[i][1] = k

\* d[key], for a dict d that has the key
Get(v, k) == v.d[CHOOSE i \in 1..Len(v.d) : v.d[i][1] = k][2]

\* d.get(key, default)
GetOr(v, k, default) == IF HasKey(v, k) THEN Get(v, k) ELSE default

\* list(d.keys())
Keys(v) == [i \in 1..Len(v.d) |-> v.d[i][1]]

\* Python type name, as exception messages spell it
TypeName(v) ==
  CASE v.t = "null" -> "NoneType"
    [] v.t = "bool" -> "bool"
    [] v.t = "int" -> "int"
    [] v.t = "float" -> "float"
    [] v.t = "str" -> "str"
    [] v.t = "list" -> "list"
    [] v.t = "dict" -> "dict"

RECURSIVE Join(_, _)
\* sep.join(parts) for a sequence of strings
Join(parts, sep) ==
  IF parts = <<>> THEN ""
  ELSE IF Len(parts) = 1 THEN parts[1]
  ELSE parts[1] \o sep \o Join(Tail(parts), sep)

RECURSIVE Repeat(_, _)
\* s * n
Repeat(s, n) ==
  IF n <= 0 THEN ""
  ELSE LET half == Repeat(s, n \div 2)
       IN half \o half \o (IF n % 2 = 1 THEN s ELSE "")

\* digits of n \in 0..9999 left-padded with zeros to width w
Pad(n, w) == Repeat("0", w - Len(ToString(n))) \o ToString(n)

RECURSIVE StripZeros(_)
StripZeros(s) ==
  IF Len(s) > 1 /\ SubSeq(s, Len(s), Len(s)) = "0"
  THEN StripZeros(SubSeq(s, 1, Len(s) - 1)) ELSE s

\* repr() of a float held as f/10000, f >= 0
FloatRepr(f) == ToString(f \div 10000) \o "." \o StripZeros(Pad(f % 10000, 4))

\* format(x, ".3f") of the number f/10000, f >= 0: round half to even on the
\* fourth decimal
Format3f(f) ==
  LET q == f \div 10
      r == f % 10
      m == IF r > 5 \/ (r = 5 /\ q % 2 = 1) THEN q + 1 ELSE q
  IN ToString(m \div 1000) \o "." \o Pad(m % 1000, 3)

RECURSIVE Repr(_)
\* repr(v)
Repr(v) ==
  CASE v.t = "null" -> "None"
    [] v.t = "bool" -> IF v.b THEN "True" ELSE "False"
    [] v.t = "int" -> ToString(v.n)
    [] v.t = "float" -> FloatRepr(v.f)
    [] v.t = "str" -> "'" \o v.s \o "'"
    [] v.t = "list" ->
         "[" \o Join([i \in 1..Len(v.l) |-> Repr(v.l[i])], ", ") \o "]"
    [] v.t = "dict" ->
         "{" \o Join([i \in 1..Len(v.d) |->
                        "'" \o v.d[i][1] \o "': " \o Repr(v.d[i][2])], ", ")
             \o "}"

\* str(v), which is what an f-string field {v} inserts
PyStr(v) == IF v.t = "str" THEN v.s ELSE Repr(v)

\* repr of a list of strings, as in f"{list(d.keys())}"
ReprKeys(ks) == "[" \o Join([i \in 1..Len(ks) |-> "'" \o ks[i] \o "'"], ", ") \o "]"

\* s[:n] + "..." if len(s) > n else s
Truncate(s, n) == IF Len(s) > n THEN SubSeq(s, 1, n) \o "..." ELSE s

IsSpace(ch) == ch = " " \/ ch = "\n" \/ ch = "\t" \/ ch = "\r"

RECURSIVE LStrip(_)
LStrip(s) ==
  IF s # "" /\ IsSpace(SubSeq(s, 1, 1)) THEN LStrip(SubSeq(s, 2, Len(s))) ELSE s

RECURSIVE RStrip(_)
RStrip(s) ==
  IF s # "" /\ IsSpace(SubSeq(s, Len(s), Len(s)))
  THEN RStrip(SubSeq(s, 1, Len(s) - 1)) ELSE s

\* s.strip()
Strip(s) == LStrip(RStrip(s))

\* sub in s, for strings
Contains(s, sub) ==
  \E i \in 1..(Len(s) - Len(sub) + 1) : SubSeq(s, i, i + Len(sub) - 1) = sub


\* len(v) is defined for str, list and dict
HasLen(v) == v.t \in {"str", "list", "dict"}

\* len(v), for a value that has one
PyLen(v) ==
  CASE v.t = "str" -> Len(v.s)
    [] v.t = "list" -> Len(v.l)
    [] v.t = "dict" -> Len(v.d)
    [] OTHER -> 0

\* the values a for-loop over v visits, for an iterable v: the elements of a
\* list, the characters of a str, the keys of a dict
Items(v) ==
  CASE v.t = "list" -> v.l
    [] v.t = "str" -> [i \in 1..Len(v.s) |-> Str(SubSeq(v.s, i, i))]
    [] v.t = "dict" -> [i \in 1..Len(v.d) |-> Str(v.d[i][1])]
    [] OTHER -> <<>>

(***************************************************************************)
(* The outcome of running a piece of code: it returns text, or it raises   *)
(* an exception of class cls with message msg; out holds the lines it      *)
(* printed on standard output before it ended.                             *)
(***************************************************************************)
Return(text) == [ok |-> TRUE, cls |-> "", msg |-> "", text |-> text, out |-> <<>>]
Raise(cls, msg) == [ok |-> FALSE, cls |-> cls, msg |-> msg, text |-> "", out |-> <<>>]

RECURSIVE Chain(_)
\* run the steps rs in order: the texts of the steps up to the first one that
\* raises, whose exception ends the run
Chain(rs) ==
  IF rs = <<>> THEN Return("")
  ELSE IF ~rs[1].ok THEN rs[1]
  ELSE LET rest == Chain(Tail(rs))
       IN IF rest.ok THEN Return(rs[1].text \o rest.text) ELSE rest

NoAttribute(v, attr) ==
  Raise("AttributeError",
        "'" \o TypeName(v) \o "' object has no attribute '" \o attr \o "'")
NoLen(v) ==
  Raise("TypeError", "object of type '" \o TypeName(v) \o "' has no len()")

(***************************************************************************)
(* The remote endpoints.  An HTTP exchange ends in a transport failure     *)
(* (net = "error") or in a response with a status and a body; json tells   *)
(* whether the body parses as JSON, and body is then the parsed value.     *)
(***************************************************************************)
DQL_ENDPOINT == "https://api.diffbot.com/v3/search"
ENHANCE_URL == "https://kg.diffbot.com/kg/v3/enhance"
DIFFBOT_TOKEN == "token"

TransportFailure == [net |-> "error", status |-> 0, json |-> FALSE, body |-> None]
Response(status, body) == [net |-> "ok", status |-> status, json |-> TRUE, body |-> body]
NotJson(status) == [net |-> "ok", status |-> status, json |-> FALSE, body |-> None]

\* response.raise_for_status() raises for a status that is not 2xx
IsSuccess(status) == status >= 200 /\ status <= 299

\* the client raises a subclass of httpx.HTTPError: the await fails on a
\* transport failure, raise_for_status() on a status that is not 2xx
RaisesHTTPError(r) == r.net = "error" \/ ~IsSuccess(r.status)

\* str(e) of that httpx.HTTPError
HTTPErrorStr(r, url) ==
  IF r.net = "error" THEN "All connection attempts failed"
  ELSE (IF r.status >= 500 THEN "Server error '" ELSE "Client error '")
       \o ToString(r.status)
       \o (IF r.status = 401 THEN " Unauthorized" ELSE " Internal Server Error")
       \o "' for url '" \o url \o "'"

\* response.json() of a body that is not JSON raises json.JSONDecodeError
JSONDecodeError == Raise("JSONDecodeError", "Expecting value: line 1 column 1 (char 0)")

(***************************************************************************)
(* dql_search                                                              *)
(***************************************************************************)
MinNum == 1
MaxNum == 100
TextLimit == 300

\* dql_search without the check of start
DqlValidate_NoStartCheck(num, start) ==
  IF num < MinNum \/ num > MaxNum
  THEN Raise("ValueError", "num must be between 1 and 100")
  ELSE Return("")

\* the validation of dql_search: the exception it raises, or Return("")
DqlValidate(num, start) ==
  IF num < MinNum \/ num > MaxNum
  THEN Raise("ValueError", "num must be between 1 and 100")
  ELSE IF start < 0 THEN Raise("ValueError", "start must be >= 0")
  ELSE Return("")

\* the query parameters of the search request
DqlParams(query, num, start) ==
  << <<"token", Str(DIFFBOT_TOKEN)>>, <<"query", Str(query)>>, <<"num", IntV(num)>>,
     <<"start", IntV(start)>>, <<"format", Str("json")>> >>

\* the Text line of one record, cut from TextLimit characters on
DqlText_CutAtLimit(obj) ==
  LET text == GetOr(obj, "text", None)
  IN IF ~Truthy(text) THEN Return("")
     ELSE IF ~HasLen(text) THEN NoLen(text)
     ELSE IF PyLen(text) >= TextLimit
     THEN Return("  Text: " \o SubSeq(text.s, 1, TextLimit) \o "..." \o "\n")
     ELSE Return("  Text: " \o PyStr(text) \o "\n")

\* the Text line of one record
DqlText(obj) ==
  LET text == GetOr(obj, "text", None)
  IN IF ~Truthy(text) THEN Return("")
     ELSE IF ~HasLen(text) THEN NoLen(text)
     ELSE IF PyLen(text) > TextLimit
     THEN IF IsStr(text)
          THEN Return("  Text: " \o SubSeq(text.s, 1, TextLimit) \o "..." \o "\n")
          ELSE Raise("TypeError", "can only concatenate " \o TypeName(text)
                                    \o " (not \"str\") to " \o TypeName(text))
     ELSE Return("  Text: " \o PyStr(text) \o "\n")

\* the block of the i-th record
DqlResult(i, obj) ==
  IF ~IsDict(obj) THEN NoAttribute(obj, "get")
  ELSE Chain(<<
    Return("Result " \o ToString(i) \o ":\n"
      \o "  Title: " \o PyStr(GetOr(obj, "title", Str("N/A"))) \o "\n"
      \o "  URL: " \o PyStr(GetOr(obj, "pageUrl", Str("N/A"))) \o "\n"
      \o "  Type: " \o PyStr(GetOr(obj, "type", Str("N/A"))) \o "\n"
      \o "  Date: " \o PyStr(GetOr(obj, "date", Str("N/A"))) \o "\n"),
    DqlText(obj),
    Return("\n") >>)

\* the formatting of a parsed search body, the range counted from start
DqlFormat_RangeFromStart(query, start, data) ==
  IF ~IsDict(data) THEN NoAttribute(data, "get")
  ELSE LET objects == GetOr(data, "objects", List(<<>>))
       IN IF ~HasLen(objects) THEN NoLen(objects)
          ELSE Chain(<<
            Return("DQL Search Results for: " \o query \o "\n"
              \o "Total results: " \o PyStr(GetOr(data, "hits", IntV(0))) \o "\n"
              \o "Showing " \o ToString(start) \o "-"
              \o ToString(start + PyLen(objects)) \o "\n\n"),
            Chain([i \in 1..Len(Items(objects)) |-> DqlResult(i, Items(objects)[i])]) >>)

\* the formatting of a parsed search body
DqlFormat(query, start, data) ==
  IF ~IsDict(data) THEN NoAttribute(data, "get")
  ELSE LET objects == GetOr(data, "objects", List(<<>>))
       IN IF ~HasLen(objects) THEN NoLen(objects)
          ELSE Chain(<<
            Return("DQL Search Results for: " \o query \o "\n"
              \o "Total results: " \o PyStr(GetOr(data, "hits", IntV(0))) \o "\n"
              \o "Showing " \o ToString(start + 1) \o "-"
              \o ToString(start + PyLen(objects)) \o "\n\n"),
            Chain([i \in 1..Len(Items(objects)) |-> DqlResult(i, Items(objects)[i])]) >>)

\* what dql_search does with the outcome r of its request
DqlFinish(query, start, r) ==
  IF RaisesHTTPError(r)
  THEN Raise("Exception", "HTTP error during DQL search: " \o HTTPErrorStr(r, DQL_ENDPOINT))
  ELSE IF ~r.json THEN JSONDecodeError
  ELSE DqlFormat(query, start, r.body)

(***************************************************************************)
(* enhance_entity: validation and query parameters                         *)
(***************************************************************************)
DefaultSize == 1
DescLimit == 200
HeaderRule == 50
DividerRule == 40
MaxSchools == 2
\* the print calls of one enhance_entity call
DebugLines == 3

\* enhance_entity asking an Organization for both name and url
EnhanceValidate_BothRequired(a) ==
  IF a.type \notin {"Person", "Organization"}
  THEN Raise("ValueError", "type must be either 'Person' or 'Organization'")
  ELSE IF a.type = "Organization" /\ ~(Truthy(a.name) /\ Truthy(a.url))
  THEN Raise("ValueError", "For Organizations, either 'name' or 'url' is required")
  ELSE IF a.type = "Person" /\ ~Truthy(a.name)
  THEN Raise("ValueError", "For Persons, 'name' is required")
  ELSE Return("")

\* the validation of enhance_entity: the exception it raises, or Return("")
EnhanceValidate(a) ==
  IF a.type \notin {"Person", "Organization"}
  THEN Raise("ValueError", "type must be either 'Person' or 'Organization'")
  ELSE IF a.type = "Organization" /\ ~(Truthy(a.name) \/ Truthy(a.url))
  THEN Raise("ValueError", "For Organizations, either 'name' or 'url' is required")
  ELSE IF a.type = "Person" /\ ~Truthy(a.name)
  THEN Raise("ValueError", "For Persons, 'name' is required")
  ELSE Return("")

\* input_params, in the order of the dict literal
InputParams(a) ==
  << <<"name", a.name>>, <<"url", a.url>>, <<"location", a.location>>,
     <<"phone", a.phone>>, <<"employer", a.employer>>, <<"title", a.title>>,
     <<"school", a.school>>, <<"ip", a.ip>>, <<"id", a.id>> >>

\* every input parameter copied into params, None included
Included_Always(value) == TRUE

\* whether a value given for an input parameter is copied into params
Included(value) == value # None

\* the query parameters of the enhance request
EnhanceParams(a) ==
  << <<"token", Str(DIFFBOT_TOKEN)>>, <<"type", Str(a.type)>> >>
  \o SelectSeq(InputParams(a), LAMBDA kv : Included(kv[2]))
  \o (IF a.threshold # None THEN << <<"threshold", a.threshold>> >> ELSE <<>>)
  \o (IF a.size # IntV(DefaultSize) THEN << <<"size", a.size>> >> ELSE <<>>)
  \o (IF Truthy(a.refresh) THEN << <<"refresh", Str("true")>> >> ELSE <<>>)
  \o (IF Truthy(a.search) THEN << <<"search", Str("true")>> >> ELSE <<>>)

\* the arguments enhance_entity receives when every optional one is defaulted
EnhanceDefaults(type) ==
  [type |-> type, name |-> None, url |-> None, location |-> None, phone |-> None,
   employer |-> None, title |-> None, school |-> None, ip |-> None, id |-> None,
   threshold |-> None, size |-> IntV(DefaultSize), refresh |-> BoolV(FALSE),
   search |-> BoolV(FALSE)]

\* enhance_organization(name, url, location) calls enhance_entity with these
OrganizationArgs(name, url, location) ==
  [EnhanceDefaults("Organization") EXCEPT !.name = name, !.url = url,
                                          !.location = location]

\* enhance_person(name, employer, title, location) calls enhance_entity with these
PersonArgs(name, employer, title, location) ==
  [EnhanceDefaults("Person") EXCEPT !.name = name, !.employer = employer,
                                    !.title = title, !.location = location]

(***************************************************************************)
(* enhance_entity: the debugging output                                    *)
(***************************************************************************)
\* v[0] of a non-empty v: the first element of a list, the first character
\* of a str (FirstValue); a dict has no key 0 and other values take no
\* subscript (First is the exception raised, or Return(""))
First(v) ==
  CASE v.t = "list" -> Return("")
    [] v.t = "str" -> Return("")
    [] v.t = "dict" -> Raise("KeyError", "0")
    [] OTHER -> Raise("TypeError", "'" \o TypeName(v) \o "' object is not subscriptable")
FirstValue(v) == IF v.t = "list" THEN v.l[1] ELSE Str(SubSeq(v.s, 1, 1))

\* the three print calls after response.json(): the lines printed, and the
\* exception that ends them if one is raised
EnhanceDebug(data) ==
  IF ~IsDict(data) THEN NoAttribute(data, "keys")
  ELSE LET line1 == "DEBUG - Full response keys: " \o ReprKeys(Keys(data))
       IN IF ~HasKey(data, "data") THEN [Return("") EXCEPT !.out = <<line1>>]
          ELSE LET d == Get(data, "data")
                   line2 == "DEBUG - Data length: " \o ToString(PyLen(d))
               IN IF ~HasLen(d) THEN [NoLen(d) EXCEPT !.out = <<line1>>]
                  ELSE IF ~Truthy(d) THEN [Return("") EXCEPT !.out = <<line1, line2>>]
                  ELSE IF ~First(d).ok THEN [First(d) EXCEPT !.out = <<line1, line2>>]
                  ELSE IF ~IsDict(FirstValue(d))
                  THEN [NoAttribute(FirstValue(d), "keys") EXCEPT !.out = <<line1, line2>>]
                  ELSE [Return("") EXCEPT !.out =
                          <<line1, line2, "DEBUG - First entity keys: "
                                            \o ReprKeys(Keys(FirstValue(d)))>>]

(***************************************************************************)
(* enhance_entity: the fields of one match                                 *)
(***************************************************************************)
RECURSIVE FirstKey(_, _)
\* the first of the keys that the dict has, "" when it has none: the
\* "for field in fields: if field in entity: ...; break" loops
FirstKey(d, keys) ==
  IF keys = <<>> THEN ""
  ELSE IF HasKey(d, keys[1]) THEN keys[1]
  ELSE FirstKey(d, Tail(keys))

RECURSIVE FirstTruthyKey(_, _)
\* the same with the test "field in entity and entity[field]"
FirstTruthyKey(d, keys) ==
  IF keys = <<>> THEN ""
  ELSE IF HasKey(d, keys[1]) /\ Truthy(Get(d, keys[1])) THEN keys[1]
  ELSE FirstTruthyKey(d, Tail(keys))

\* one "  Label: value\n" line
Line(label, v) == "  " \o label \o ": " \o PyStr(v) \o "\n"

\* the line of the first present key, if any
FirstKeyLine(label, d, keys) ==
  IF FirstKey(d, keys) = "" THEN "" ELSE Line(label, Get(d, FirstKey(d, keys)))

\* ', '.join(l) of the elements of a list: every element must be a str
JoinValues(l) ==
  IF \E i \in 1..Len(l) : ~IsStr(l[i])
  THEN LET i == CHOOSE j \in 1..Len(l) :
                  ~IsStr(l[j]) /\ \A k \in 1..(j - 1) : IsStr(l[k])
       IN Raise("TypeError", "sequence item " \o ToString(i - 1)
                  \o ": expected str instance, " \o TypeName(l[i]) \o " found")
  ELSE Return(Join([i \in 1..Len(l) |-> l[i].s], ", "))

\* the Location line from a location value: a dict with a name, or a str
LocationOf(loc) ==
  IF IsDict(loc) /\ HasKey(loc, "name") THEN Line("Location", Get(loc, "name"))
  ELSE IF IsStr(loc) THEN Line("Location", loc)
  ELSE ""

\* Organization: the Location line
OrganizationLocation(entity) ==
  IF HasKey(entity, "location") THEN Return(LocationOf(Get(entity, "location")))
  ELSE IF HasKey(entity, "locations") /\ Truthy(Get(entity, "locations"))
  THEN IF ~First(Get(entity, "locations")).ok THEN First(Get(entity, "locations"))
       ELSE Return(LocationOf(FirstValue(Get(entity, "locations"))))
  ELSE Return("")

\* Person: the Location line
PersonLocation(entity) ==
  IF HasKey(entity, "location") THEN Return(LocationOf(Get(entity, "location")))
  ELSE IF HasKey(entity, "locations") /\ Truthy(Get(entity, "locations"))
  THEN IF ~First(Get(entity, "locations")).ok THEN First(Get(entity, "locations"))
       ELSE Return(LocationOf(FirstValue(Get(entity, "locations"))))
  ELSE Return("")

employee_fields ==
  << <<"nbEmployeesMin", "nbEmployeesMax">>, <<"employeesMin", "employeesMax">>,
     <<"employeeCountMin", "employeeCountMax">> >>

RECURSIVE Employees(_, _)
\* the loop over the (min, max) pairs: a pair with either key present prints
\* the range and ends the loop; an iteration whose pair is absent prints
\* nbEmployees, when present, and goes on
Employees(entity, pairs) ==
  IF pairs = <<>> THEN ""
  ELSE IF HasKey(entity, pairs[1][1]) \/ HasKey(entity, pairs[1][2])
  THEN "  Employees: " \o PyStr(GetOr(entity, pairs[1][1], Str("N/A"))) \o " - "
         \o PyStr(GetOr(entity, pairs[1][2], Str("N/A"))) \o "\n"
  ELSE IF HasKey(entity, "nbEmployees")
  THEN Line("Employees", Get(entity, "nbEmployees")) \o Employees(entity, Tail(pairs))
  ELSE Employees(entity, Tail(pairs))

\* the Industry line
Industry(entity) ==
  LET k == FirstKey(entity, <<"industry", "industries", "category", "categories">>)
  IN IF k = "" THEN Return("")
     ELSE IF IsList(Get(entity, k))
     THEN IF ~JoinValues(Get(entity, k).l).ok THEN JoinValues(Get(entity, k).l)
          ELSE Return("  Industry: " \o JoinValues(Get(entity, k).l).text \o "\n")
     ELSE Return(Line("Industry", Get(entity, k)))

\* the Description line
Description(entity) ==
  LET k == FirstKey(entity, <<"description", "summary", "about">>)
  IN IF k = "" THEN ""
     ELSE "  Description: " \o Truncate(PyStr(Get(entity, k)), DescLimit) \o "\n"

\* the Organization-only lines
OrganizationFields(entity) ==
  Chain(<<
    Return(FirstKeyLine("Website", entity, <<"homepageUri", "website", "url", "homepage">>)),
    OrganizationLocation(entity),
    Return(FirstKeyLine("Revenue", entity, <<"revenue", "annualRevenue", "yearlyRevenue">>)),
    Return(Employees(entity, employee_fields)),
    Industry(entity),
    Return(Description(entity)) >>)

\* the Current Employer and Title lines
Employment(entity) ==
  LET k == FirstTruthyKey(entity, <<"employments", "employment", "jobs", "currentEmployment">>)
      current_job == IF IsList(Get(entity, k)) THEN Get(entity, k).l[1] ELSE Get(entity, k)
      employer == Get(current_job, "employer")
  IN IF k = "" THEN ""
     ELSE IF ~IsDict(current_job) THEN ""
     ELSE (IF ~HasKey(current_job, "employer") THEN ""
           ELSE IF IsDict(employer) /\ HasKey(employer, "name")
           THEN Line("Current Employer", Get(employer, "name"))
           ELSE IF IsStr(employer) THEN Line("Current Employer", employer)
           ELSE "")
          \o FirstKeyLine("Title", current_job, <<"title", "position", "role">>)

\* the entries that one education record adds to schools
School(edu) ==
  IF ~IsDict(edu) THEN <<>>
  ELSE IF HasKey(edu, "institution") /\ IsDict(Get(edu, "institution"))
          /\ HasKey(Get(edu, "institution"), "name")
  THEN <<Get(Get(edu, "institution"), "name")>>
  ELSE IF HasKey(edu, "school") THEN <<Str(PyStr(Get(edu, "school")))>>
  ELSE IF HasKey(edu, "name") THEN <<Get(edu, "name")>>
  ELSE <<>>

RECURSIVE Schools(_)
\* the entries the education records add to schools, in order
Schools(edus) == IF edus = <<>> THEN <<>> ELSE School(edus[1]) \o Schools(Tail(edus))

\* the Education line
Education(entity) ==
  LET k == FirstTruthyKey(entity, <<"educations", "education", "schools">>)
      edus == Get(entity, k).l
      schools == Schools(SubSeq(edus, 1, IF Len(edus) < MaxSchools THEN Len(edus)
                                                                  ELSE MaxSchools))
  IN IF k = "" THEN Return("")
     ELSE IF ~IsList(Get(entity, k)) THEN Return("")
     ELSE IF schools = <<>> THEN Return("")
     ELSE IF ~JoinValues(schools).ok THEN JoinValues(schools)
     ELSE Return("  Education: " \o JoinValues(schools).text \o "\n")

\* the Person-only lines
PersonFields(entity) ==
  Chain(<< PersonLocation(entity), Return(Employment(entity)), Education(entity) >>)

social_mappings ==
  << <<"twitterUri", "Twitter">>, <<"twitter", "Twitter">>, <<"twitterUrl", "Twitter">>,
     <<"linkedInUri", "LinkedIn">>, <<"linkedin", "LinkedIn">>,
     <<"linkedinUri", "LinkedIn">>, <<"linkedInUrl", "LinkedIn">>,
     <<"facebookUri", "Facebook">>, <<"facebook", "Facebook">>,
     <<"facebookUrl", "Facebook">> >>

\* the Social Media line
SocialMedia(entity) ==
  LET found == SelectSeq(social_mappings,
                 LAMBDA m : HasKey(entity, m[1]) /\ Truthy(Get(entity, m[1])))
      social_links == [i \in 1..Len(found) |->
                         found[i][2] \o ": " \o PyStr(Get(entity, found[i][1]))]
  IN IF found = <<>> THEN ""
     ELSE "  Social Media: " \o Join(social_links, ", ") \o "\n"

\* the interesting fields with the label the replace(...).title() chain gives
interesting_fields ==
  << <<"founded", "Founded">>, <<"foundedYear", "Founded">>,
     <<"ticker", "Stock Ticker">>, <<"stock", "Stock">>, <<"ceo", "Ceo">>,
     <<"headquarters", "Headquarters">> >>

\* the lines of the interesting fields
Interesting(entity) ==
  LET found == SelectSeq(interesting_fields,
                 LAMBDA m : HasKey(entity, m[1]) /\ Truthy(Get(entity, m[1])))
  IN Join([i \in 1..Len(found) |-> Line(found[i][2], Get(entity, found[i][1]))], "")

\* the lines common to both entity types
CommonFields(entity) ==
  FirstKeyLine("Diffbot URI", entity, <<"diffbotUri", "uri", "id", "diffbotId">>)
  \o SocialMedia(entity) \o Interesting(entity)

(***************************************************************************)
(* enhance_entity: the matches and the whole response                      *)
(***************************************************************************)
\* whether "key in match" raises: only str, list and dict support "in"
InRaises(match) == match.t \notin {"dict", "list", "str"}

\* key in match: a key of a dict, an element of a list, a substring of a str
In(key, match) ==
  CASE match.t = "dict" -> HasKey(match, key)
    [] match.t = "list" -> \E i \in 1..Len(match.l) : IsStr(match.l[i]) /\ match.l[i].s = key
    [] match.t = "str" -> Contains(match.s, key)
    [] OTHER -> FALSE

NotIterable(v) == Raise("TypeError", "argument of type '" \o TypeName(v) \o "' is not iterable")
BadIndex(v) ==
  Raise("TypeError", IF v.t = "list" THEN "list indices must be integers or slices, not str"
                     ELSE "string indices must be integers")

\* the Confidence Score line: f"{match['score']:.3f}"
Score(match) ==
  IF InRaises(match) THEN NotIterable(match)
  ELSE IF ~In("score", match) THEN Return("")
  ELSE IF ~IsDict(match) THEN BadIndex(match)
  ELSE LET score == Get(match, "score")
       IN CASE score.t = "float" -> Return("  Confidence Score: " \o Format3f(score.f) \o "\n")
            [] score.t = "int" ->
                 Return("  Confidence Score: " \o Format3f(score.n * 10000) \o "\n")
            [] score.t = "bool" ->
                 Return("  Confidence Score: " \o (IF score.b THEN "1.000" ELSE "0.000") \o "\n")
            [] score.t = "str" ->
                 Raise("ValueError", "Unknown format code 'f' for object of type 'str'")
            [] OTHER ->
                 Raise("TypeError", "unsupported format string passed to "
                                      \o TypeName(score) \o ".__format__")

\* the Errors line
Errors(match) ==
  IF InRaises(match) THEN NotIterable(match)
  ELSE IF ~In("errors", match) THEN Return("")
  ELSE IF ~IsDict(match) THEN BadIndex(match)
  ELSE IF Truthy(Get(match, "errors")) THEN Return(Line("Errors", Get(match, "errors")))
  ELSE Return("")

\* the lines of the entity of a match, going on after the note
Entity_NoSkip(type, match) ==
  LET entity == GetOr(match, "entity", Dict(<<>>))
  IN IF ~IsDict(match) THEN NoAttribute(match, "get")
     ELSE IF ~Truthy(entity)
     THEN Return("  No entity data found in this match.\n"
                 \o "  Entity fields: []\n" \o "\n")
     ELSE IF ~IsDict(entity) THEN NoAttribute(entity, "keys")
     ELSE Chain(<<
       Return("  Entity fields: " \o ReprKeys(Keys(entity)) \o "\n"),
       Return(IF HasKey(entity, "name") THEN Line("Name", Get(entity, "name")) ELSE ""),
       IF type = "Organization" THEN OrganizationFields(entity) ELSE PersonFields(entity),
       Return(CommonFields(entity)),
       Return("\n") >>)

\* the lines of the entity of a match
Entity(type, match) ==
  LET entity == GetOr(match, "entity", Dict(<<>>))
  IN IF ~IsDict(match) THEN NoAttribute(match, "get")
     ELSE IF ~Truthy(entity) THEN Return("  No entity data found in this match.\n")
     ELSE IF ~IsDict(entity) THEN NoAttribute(entity, "keys")
     ELSE Chain(<<
       Return("  Entity fields: " \o ReprKeys(Keys(entity)) \o "\n"),
       Return(IF HasKey(entity, "name") THEN Line("Name", Get(entity, "name")) ELSE ""),
       IF type = "Organization" THEN OrganizationFields(entity) ELSE PersonFields(entity),
       Return(CommonFields(entity)),
       Return("\n") >>)

\* the text of the i-th match, with the divider before every match
Match_DividerFirst(type, i, match) ==
  Chain(<<
    Return("\n" \o Repeat("-", DividerRule) \o "\n\n"
           \o "Match #" \o ToString(i) \o ":\n"),
    Score(match), Errors(match), Entity(type, match) >>)

\* the text of the i-th match, with the divider before every match but the first
Match(type, i, match) ==
  Chain(<<
    Return((IF i > 1 THEN "\n" \o Repeat("-", DividerRule) \o "\n\n" ELSE "")
           \o "Match #" \o ToString(i) \o ":\n"),
    Score(match), Errors(match), Entity(type, match) >>)

\* entities: the match list under data, else under results, else the body
\* itself when it is a list
Entities(data) ==
  IF In("data", data) /\ Truthy(Get(data, "data")) THEN Get(data, "data")
  ELSE IF In("results", data) /\ Truthy(Get(data, "results")) THEN Get(data, "results")
  ELSE IF IsList(data) THEN data
  ELSE List(<<>>)

\* the exception the selection of entities raises, or Return("")
EntitiesRaises(data) ==
  IF InRaises(data) THEN NotIterable(data)
  ELSE IF ~IsDict(data) /\ (In("data", data) \/ In("results", data)) THEN BadIndex(data)
  ELSE Return("")

\* entity_type.lower()
Lower(entity_type) == IF entity_type = "Organization" THEN "organization" ELSE "person"

\* the message when no match is found
NoMatch(entity_type) ==
  "No " \o Lower(entity_type) \o " found matching the provided criteria.\n"
  \o "Try:\n"
  \o "- Adding more input parameters (location, url, etc.)\n"
  \o "- Lowering the threshold parameter\n"
  \o "- Using search=True to search beyond the Knowledge Graph\n"

\* the heading of every enhance result
Heading(entity_type) ==
  "Enhanced " \o entity_type \o " Data:\n" \o Repeat("=", HeaderRule) \o "\n\n"

\* the formatting of a parsed enhance body, after the debugging output
EnhanceText(type, data) ==
  LET entity_type == IF type = "Organization" THEN "Organization" ELSE "Person"
      entities == Entities(data)
      body == IF ~EntitiesRaises(data).ok THEN EntitiesRaises(data)
              ELSE IF ~Truthy(entities) THEN Return(NoMatch(entity_type))
              ELSE IF ~HasLen(entities)
              THEN Raise("TypeError", "'" \o TypeName(entities) \o "' object is not iterable")
              ELSE Chain([i \in 1..Len(Items(entities)) |-> Match(type, i, Items(entities)[i])])
  IN IF body.ok THEN Return(Strip(Heading(entity_type) \o body.text)) ELSE body

\* everything between response.json() and the return
EnhanceFormat(type, data) ==
  LET debug == EnhanceDebug(data)
  IN IF debug.ok THEN [EnhanceText(type, data) EXCEPT !.out = debug.out] ELSE debug

\* what enhance_entity does with the outcome r of its request: the three
\* except clauses turn every exception of the try block into an Exception
EnhanceFinish(type, r) ==
  IF RaisesHTTPError(r)
  THEN Raise("Exception", "HTTP error during entity enhancement: "
                            \o HTTPErrorStr(r, ENHANCE_URL))
  ELSE LET tried == IF ~r.json THEN JSONDecodeError ELSE EnhanceFormat(type, r.body)
       IN IF tried.ok THEN tried
          ELSE IF tried.cls = "KeyError"
          THEN [Raise("Exception", "Unexpected response format from Diffbot API: "
                                     \o tried.msg) EXCEPT !.out = tried.out]
          ELSE [Raise("Exception", "Error enhancing entity: " \o tried.msg)
                  EXCEPT !.out = tried.out]

(***************************************************************************)
(* The inputs: tool arguments and the answers of the remote endpoints      *)
(***************************************************************************)
\* how far beyond the limits of num and start the arguments range
Margin == 1
\* how many optional arguments of enhance_entity differ from their default
MaxChanged == 1
\* the lines standard output holds at most
MaxStdout == 3

Queries == {"type:article"}
Nums == ((MinNum - Margin - 1)..(MinNum + Margin)) \cup ((MaxNum - Margin)..(MaxNum + Margin))
Starts == (0 - Margin)..Margin

Types == {"Person", "Organization", "Company"}
OptStr == {None, Str(""), Str("Acme")}

\* the optional arguments other than name and url, and the values each takes
\* besides its default
OptionalNames ==
  {"location", "phone", "employer", "title", "school", "ip", "id",
   "threshold", "size", "refresh", "search"}
Alternatives(f) ==
  CASE f = "threshold" -> {FloatV(0), FloatV(5000)}
    [] f = "size" -> {IntV(0), IntV(2)}
    [] f \in {"refresh", "search"} -> {BoolV(TRUE)}
    [] OTHER -> {Str(""), Str("x")}

\* the arguments with the optional ones in S set as g says
WithOptional(a, S, g) ==
  [f \in DOMAIN a |-> IF f \in S THEN g[f] ELSE a[f]]

\* the argument records of enhance_entity the model draws from
EnhanceArgs ==
  UNION { UNION { { WithOptional([EnhanceDefaults(type) EXCEPT !.name = name, !.url = url], S, g) :
                    g \in { h \in [S -> UNION {Alternatives(f) : f \in S}] :
                              \A f \in S : h[f] \in Alternatives(f) } } :
                  S \in { T \in SUBSET OptionalNames : Cardinality(T) <= MaxChanged } } :
          type \in Types, name \in OptStr, url \in OptStr }

acme == Dict(<< <<"name", Str("Acme")>>, <<"website", Str("acme.com")>> >>)
acmeMatch == Dict(<< <<"score", FloatV(8532)>>, <<"entity", acme>> >>)
jane ==
  Dict(<< <<"name", Str("Jane")>>, <<"location", Str("NYC")>>,
          <<"employments", List(<< Dict(<< <<"employer", Dict(<< <<"name", Str("Acme")>> >>)>>,
                                           <<"title", Str("CEO")>> >>) >>)>>,
          <<"educations", List(<< Dict(<< <<"institution", Dict(<< <<"name", Str("MIT")>> >>)>> >>),
                                  Dict(<< <<"school", Str("Yale")>> >>),
                                  Dict(<< <<"name", Str("UCLA")>> >>) >>)>>,
          <<"linkedInUri", Str("linkedin.com/in/jane")>> >>)
big ==
  Dict(<< <<"name", Str("Big")>>, <<"homepageUri", Str("big.com")>>, <<"url", Str("big.org")>>,
          <<"locations", List(<< Dict(<< <<"name", Str("NYC")>> >>) >>)>>,
          <<"revenue", IntV(100)>>, <<"employeesMin", IntV(10)>>,
          <<"nbEmployees", IntV(50)>>,
          <<"industries", List(<<Str("Software"), Str("AI")>>)>>,
          <<"description", Str(Repeat("d", DescLimit + 1))>>,
          <<"diffbotUri", Str("diffbot.com/entity/E1")>>,
          <<"twitterUri", Str("twitter.com/big")>>, <<"facebook", Str("fb.com/big")>>,
          <<"foundedYear", IntV(1999)>>, <<"ceo", Str("Jane")>> >>)
Data(matches) == Dict(<< <<"data", matches>> >>)
OneEntity(entity) == Data(List(<< Dict(<< <<"entity", entity>> >>) >>))

\* the parsed JSON bodies the enhance endpoint answers with
EnhanceBodies ==
  << Dict(<<>>),
     Data(List(<<>>)),
     Data(None),
     Dict(<< <<"results", List(<<>>)>> >>),
     Dict(<< <<"results", None>> >>),
     List(<<>>),
     Data(List(<<acmeMatch>>)),
     Dict(<< <<"results", List(<<acmeMatch>>)>> >>),
     List(<<acmeMatch>>),
     Dict(<< <<"data", List(<<>>)>>, <<"results", List(<<acmeMatch>>)>> >>),
     Data(List(<< Dict(<< <<"score", Str("high")>>, <<"entity", acme>> >>) >>)),
     Data(List(<< Dict(<< <<"score", None>>, <<"entity", acme>> >>) >>)),
     OneEntity(Str("Acme")),
     OneEntity(Dict(<< <<"name", Str("Acme")>>,
                       <<"locations", Dict(<< <<"name", Str("NYC")>> >>)>> >>)),
     OneEntity(Dict(<< <<"name", Str("Acme")>>,
                       <<"industries", List(<<IntV(1), IntV(2)>>)>> >>)),
     OneEntity(Dict(<< <<"name", Str("Jane")>>,
                       <<"educations", List(<< Dict(<< <<"name", IntV(7)>> >>) >>)>> >>)),
     OneEntity(Dict(<< <<"locations", List(<< Dict(<< <<"name", Str("NYC")>> >>) >>)>> >>)),
     OneEntity(Dict(<< <<"location", Str("NYC")>> >>)),
     OneEntity(Dict(<< <<"nbEmployees", IntV(50)>> >>)),
     OneEntity(Dict(<< <<"nbEmployeesMin", IntV(1)>>, <<"nbEmployees", IntV(50)>> >>)),
     OneEntity(big),
     OneEntity(jane),
     Data(List(<< acmeMatch, Dict(<< <<"score", IntV(1)>> >>),
                  Dict(<< <<"errors", List(<<Str("timeout")>>)>>, <<"entity", jane>> >>) >>)),
     Data(List(<< Dict(<<>>), acmeMatch >>)),
     Data(List(<< Str("Acme") >>)),
     Data(IntV(5)),
     Data(List(<< Dict(<< <<"entity", Dict(<<>>)>> >>),
                  Dict(<< <<"score", FloatV(5000)>>, <<"entity", None>> >>),
                  Dict(<< <<"entity", big>> >>) >>)) >>

article(title, url, date) ==
  << <<"title", Str(title)>>, <<"pageUrl", Str(url)>>, <<"type", Str("article")>>,
     <<"date", Str(date)>> >>
Objects(hits, objects) == Dict(<< <<"hits", IntV(hits)>>, <<"objects", List(objects)>> >>)

\* the parsed JSON bodies the search endpoint answers with
SearchBodies ==
  << Objects(2, << Dict(article("A", "u1", "2024-01-01")),
                   Dict(article("B", "u2", "2024-01-02")
                        \o << <<"text", Str(Repeat("x", TextLimit + 1))>> >>) >>),
     Dict(<<>>),
     Objects(0, <<>>),
     Objects(1, << Dict(<<>>) >>),
     Objects(3, << Dict(<< <<"text", Str("")>> >>),
                   Dict(<< <<"text", Str(Repeat("x", TextLimit))>> >>),
                   Dict(<< <<"title", None>>, <<"text", Str("short")>> >>) >>),
     List(<<>>),
     Dict(<< <<"objects", None>> >>),
     Objects(1, << Str("A") >>),
     Objects(1, << Dict(<< <<"text", IntV(5)>> >>) >>) >>

\* the outcomes of a request that earn no body: a transport failure and the
\* statuses that are not 2xx
Statuses == {401, 500}
Failures == {TransportFailure} \cup {Response(st, None) : st \in Statuses}

SearchOutcomes ==
  Failures \cup {NotJson(200)} \cup {Response(200, SearchBodies[i]) : i \in 1..Len(SearchBodies)}
EnhanceOutcomes ==
  Failures \cup {NotJson(200)} \cup {Response(200, EnhanceBodies[i]) : i \in 1..Len(EnhanceBodies)}

(***************************************************************************)
(* The server: each slot of pc is one tool call                            *)
(***************************************************************************)
NoArgs == [type |-> ""]
NoResp == [net |-> "", status |-> 0, json |-> FALSE, body |-> None]
NoResult == [ok |-> FALSE, cls |-> "", msg |-> "", text |-> "", out |-> <<>>]

\* the request issued a second time
Requests_Twice(url, params) ==
  << [url |-> url, params |-> params], [url |-> url, params |-> params] >>

\* the GETs a call issues once its arguments are valid: one client.get
Requests(url, params) == << [url |-> url, params |-> params] >>

InitCalls(calls) ==
  /\ pc = [c \in calls |-> "idle"]
  /\ tool = [c \in calls |-> ""]
  /\ args = [c \in calls |-> NoArgs]
  /\ inflight = [c \in calls |-> <<>>]
  /\ sent = [c \in calls |-> 0]
  /\ resp = [c \in calls |-> NoResp]
  /\ result = [c \in calls |-> NoResult]
  /\ stdout = <<>>

Init == InitCalls({"c1"})

\* a tool starts: it validates, and either raises or issues its request and
\* suspends on the await
Start(c, name, a, valid, url, params) ==
  /\ pc[c] = "idle"
  /\ tool' = [tool EXCEPT ![c] = name]
  /\ args' = [args EXCEPT ![c] = a]
  /\ IF valid.ok
     THEN /\ pc' = [pc EXCEPT ![c] = "awaiting"]
          /\ inflight' = [inflight EXCEPT ![c] = @ \o Requests(url, params)]
          /\ sent' = [sent EXCEPT ![c] = @ + Len(Requests(url, params))]
          /\ UNCHANGED result
     ELSE /\ pc' = [pc EXCEPT ![c] = "done"]
          /\ result' = [result EXCEPT ![c] = valid]
          /\ UNCHANGED <<inflight, sent>>
  /\ UNCHANGED <<resp, stdout>>

\* the enhance calls that are suspended on their request
Enhancing == {c \in DOMAIN pc : pc[c] = "awaiting" /\ tool[c] # "dql_search"}

dql_search(c, queries, nums, starts) ==
  /\ pc[c] = "idle"
  /\ \E query \in queries, num \in nums, start \in starts :
       Start(c, "dql_search", [query |-> query, num |-> num, start |-> start],
             DqlValidate(num, start), DQL_ENDPOINT, DqlParams(query, num, start))

\* standard output has room for the lines of the enhance calls under way:
\* MaxStdout lines for each call the dispatcher may run at once
StartEnhance(c, name, a) ==
  /\ Len(stdout) + DebugLines * (Cardinality(Enhancing) + 1)
       <= MaxStdout * Cardinality(DOMAIN pc)
  /\ Start(c, name, a, EnhanceValidate(a), ENHANCE_URL, EnhanceParams(a))

enhance_entity(c, arguments) ==
  /\ pc[c] = "idle"
  /\ \E a \in arguments : StartEnhance(c, "enhance_entity", a)

enhance_organization(c, strs) ==
  /\ pc[c] = "idle"
  /\ \E name \in strs, url \in strs, location \in strs :
       StartEnhance(c, "enhance_organization", OrganizationArgs(name, url, location))

enhance_person(c, strs) ==
  /\ pc[c] = "idle"
  /\ \E name \in strs \ {None}, employer \in strs, title \in strs, location \in strs :
       StartEnhance(c, "enhance_person", PersonArgs(name, employer, title, location))

\* the text stamped with the number of lines written to standard output so far
Finish_Stamped(c, r, res) ==
  /\ pc[c] = "awaiting"
  /\ inflight[c] # <<>>
  /\ inflight' = [inflight EXCEPT ![c] = Tail(@)]
  /\ resp' = [resp EXCEPT ![c] = r]
  /\ result' = [result EXCEPT ![c] = [res EXCEPT !.text = @ \o ToString(Len(stdout))]]
  /\ stdout' = stdout \o res.out
  /\ pc' = [pc EXCEPT ![c] = "done"]
  /\ UNCHANGED <<tool, args, sent>>

\* the result kept in one place for all calls
Finish_SharedResult(c, r, res) ==
  /\ pc[c] = "awaiting"
  /\ inflight[c] # <<>>
  /\ inflight' = [inflight EXCEPT ![c] = Tail(@)]
  /\ resp' = [resp EXCEPT ![c] = r]
  /\ result' = [d \in DOMAIN result |-> res]
  /\ stdout' = stdout \o res.out
  /\ pc' = [pc EXCEPT ![c] = "done"]
  /\ UNCHANGED <<tool, args, sent>>

\* the awaited request completes with outcome r and the coroutine runs to its end
Finish(c, r, res) ==
  /\ pc[c] = "awaiting"
  /\ inflight[c] # <<>>
  /\ inflight' = [inflight EXCEPT ![c] = Tail(@)]
  /\ resp' = [resp EXCEPT ![c] = r]
  /\ result' = [result EXCEPT ![c] = res]
  /\ stdout' = stdout \o res.out
  /\ pc' = [pc EXCEPT ![c] = "done"]
  /\ UNCHANGED <<tool, args, sent>>

SearchResponse(c, outcomes) ==
  /\ pc[c] = "awaiting"
  /\ tool[c] = "dql_search"
  /\ \E r \in outcomes : Finish(c, r, DqlFinish(args[c].query, args[c].start, r))

EnhanceResponse(c, outcomes) ==
  /\ pc[c] = "awaiting"
  /\ tool[c] \in {"enhance_entity", "enhance_organization", "enhance_person"}
  /\ \E r \in outcomes : Finish(c, r, EnhanceFinish(args[c].type, r))

\* the dispatcher takes the result of a finished call; the slot is free again
Deliver(c) ==
  /\ pc[c] = "done"
  /\ pc' = [pc EXCEPT ![c] = "idle"]
  /\ tool' = [tool EXCEPT ![c] = ""]
  /\ args' = [args EXCEPT ![c] = NoArgs]
  /\ inflight' = [inflight EXCEPT ![c] = <<>>]
  /\ sent' = [sent EXCEPT ![c] = 0]
  /\ resp' = [resp EXCEPT ![c] = NoResp]
  /\ result' = [result EXCEPT ![c] = NoResult]
  /\ UNCHANGED stdout

\* the lines of help_text between its opening and closing quotes
help_text ==
  << "DQL (Diffbot Query Language) Help",
     "",
     "DQL allows you to search Diffbot's Knowledge Graph using a simple query syntax.",
     "",
     "Basic Syntax:",
     "- Field searches: field:value",
     "- Exact phrases: \"exact phrase\"",
     "- OR operator: query1 OR query2",
     "- AND operator: query1 AND query2 (default)",
     "- NOT operator: NOT query",
     "",
     "Common Fields:",
     "- type: Content type (article, product, image, video, etc.)",
     "- title: Article/page title",
     "- author: Author name",
     "- text: Body text content",
     "- tags: Associated tags",
     "- date: Publication date",
     "- site: Website domain",
     "- language: Content language",
     "",
     "Date Ranges:",
     "- date:>2023-01-01 (after date)",
     "- date:<2023-12-31 (before date)",
     "- date:2023-01-01..2023-12-31 (date range)",
     "",
     "Examples:",
     "1. Find articles by author:",
     "   type:article author:\"John Smith\"",
     "",
     "2. Find recent tech articles:",
     "   type:article tags:technology date:>2023-01-01",
     "",
     "3. Find products under $100:",
     "   type:product price:<100",
     "",
     "4. Find articles about AI or machine learning:",
     "   type:article (text:\"artificial intelligence\" OR text:\"machine learning\")",
     "",
     "5. Find content from specific site:",
     "   site:techcrunch.com type:article",
     "",
     "6. Complex query:",
     "   type:article author:\"Jane Doe\" date:>2023-06-01 NOT tags:opinion",
     "",
     "Tips:",
     "- Use quotes for exact phrases",
     "- Combine multiple conditions with AND/OR",
     "- Use parentheses to group conditions",
     "- Field names are case-sensitive",
     "- Use wildcards (*) for partial matches" >>

\* dql_help: the help text, stripped
dql_help_text == Strip("\n" \o Join(help_text, "\n") \o "\n")

\* the tools registered with @mcp.tool(), each with the parameter names of
\* its signature
RegisteredTools ==
  [dql_search |-> {"query", "num", "start"},
   enhance_entity |-> {"type", "name", "url", "location", "phone", "employer", "title",
                       "school", "ip", "id", "threshold", "size", "refresh", "search"},
   enhance_organization |-> {"name", "url", "location"},
   enhance_person |-> {"name", "employer", "title", "location"},
   dql_help |-> {}]

\* the tools/call requests of the test client's run, in its order
TestCalls ==
  << [name |-> "dql_help", arguments |-> <<>>],
     [name |-> "dql_search", arguments |-> [query |-> "type:article", num |-> 3]],
     [name |-> "enhance_url", arguments |-> [url |-> "https://example.com", fields |-> "meta"]] >>

\* a call that ends without a request
Answer(c, name, a, res) ==
  /\ pc' = [pc EXCEPT ![c] = "done"]
  /\ tool' = [tool EXCEPT ![c] = name]
  /\ args' = [args EXCEPT ![c] = a]
  /\ result' = [result EXCEPT ![c] = res]
  /\ UNCHANGED <<inflight, sent, resp, stdout>>

\* the test client sends one of its tools/call requests; the server runs the
\* tool of that name, and answers with an error when it has registered none
call_tool(c, calls) ==
  /\ pc[c] = "idle"
  /\ \E k \in 1..Len(calls) :
       LET name == calls[k].name
           arguments == calls[k].arguments
       IN IF name \notin DOMAIN RegisteredTools
          THEN Answer(c, name, arguments, Raise("ToolError", "Unknown tool: " \o name))
          ELSE IF name = "dql_help"
          THEN Answer(c, name, arguments, Return(dql_help_text))
          ELSE /\ name = "dql_search"
               /\ LET start == IF "start" \in DOMAIN arguments THEN arguments.start ELSE 0
                  IN Start(c, name,
                           [query |-> arguments.query, num |-> arguments.num, start |-> start],
                           DqlValidate(arguments.num, start), DQL_ENDPOINT,
                           DqlParams(arguments.query, arguments.num, start))

Next ==
  \/ \E c \in DOMAIN pc : call_tool(c, TestCalls)
  \/ \E c \in DOMAIN pc : dql_search(c, Queries, Nums, Starts)
  \/ \E c \in DOMAIN pc : enhance_entity(c, EnhanceArgs)
  \/ \E c \in DOMAIN pc : enhance_organization(c, OptStr)
  \/ \E c \in DOMAIN pc : enhance_person(c, OptStr)
  \/ \E c \in DOMAIN pc : SearchResponse(c, SearchOutcomes)
  \/ \E c \in DOMAIN pc : EnhanceResponse(c, EnhanceOutcomes)
  \/ \E c \in DOMAIN pc : Deliver(c)

Spec == Init /\ [][Next]_vars

(***************************************************************************)
(* Two calls side by side, as the dispatcher may run them, over a smaller  *)
(* choice of arguments and answers                                         *)
(***************************************************************************)
PairNums == {MaxNum, MaxNum + Margin}
PairArgs ==
  {[EnhanceDefaults(type) EXCEPT !.name = name] :
     type \in {"Person", "Organization"}, name \in {None, Str("Acme")}}
PairStr == {None, Str("Acme")}
PairSearchOutcomes == Failures \cup {NotJson(200), Response(200, SearchBodies[1])}
PairEnhanceOutcomes ==
  Failures \cup {NotJson(200), Response(200, EnhanceBodies[1]), Response(200, EnhanceBodies[7])}

InitPair == InitCalls({"c1", "c2"})

NextPair ==
  \/ \E c \in DOMAIN pc : dql_search(c, Queries, PairNums, {0})
  \/ \E c \in DOMAIN pc : enhance_entity(c, PairArgs)
  \/ \E c \in DOMAIN pc : enhance_organization(c, PairStr)
  \/ \E c \in DOMAIN pc : enhance_person(c, PairStr)
  \/ \E c \in DOMAIN pc : SearchResponse(c, PairSearchOutcomes)
  \/ \E c \in DOMAIN pc : EnhanceResponse(c, PairEnhanceOutcomes)
  \/ \E c \in DOMAIN pc : Deliver(c)

SpecPair == InitPair /\ [][NextPair]_vars

(***************************************************************************)
(* Properties                                                              *)
(***************************************************************************)
EnhanceTools == {"enhance_entity", "enhance_organization", "enhance_person"}

\* the call raised the exception of class cls
Raised(c, cls) == pc[c] = "done" /\ ~result[c].ok /\ result[c].cls = cls

\* the call never touched the network
NoRequest(c) == sent[c] = 0 /\ inflight[c] = <<>> /\ resp[c] = NoResp

\* the call got a 2xx answer whose body parsed as JSON
GotJson(c) ==
  pc[c] = "done" /\ resp[c].net = "ok" /\ resp[c].status = 200 /\ resp[c].json

\* C1: a dql_search call with num outside [1,100] or start < 0 raises
\* ValueError (the InvalidArgument kind) and issues no request in any state
\* of the call; with 1 <= num <= 100 and start >= 0 the call is not rejected
\* and its request is issued.
C1_SearchValidation ==
  \A c \in DOMAIN pc :
    tool[c] = "dql_search" =>
      IF args[c].num < 1 \/ args[c].num > 100 \/ args[c].start < 0
      THEN Raised(c, "ValueError") /\ NoRequest(c)
      ELSE /\ sent[c] = 1
           /\ ~(Raised(c, "ValueError") /\ resp[c] = NoResp)
           /\ pc[c] = "awaiting" =>
                Len(inflight[c]) = 1 /\ inflight[c][1].url = DQL_ENDPOINT

C1_Witness ==
  \E c \in DOMAIN pc :
    /\ tool[c] = "dql_search" /\ args[c].num = 101 /\ args[c].start = 0
    /\ Raised(c, "ValueError") /\ NoRequest(c)

Unset(v) == v = None
Missing(v) == v = None \/ v = Str("")

\* the validation outcome of the enhance calls, with absent(v) telling when
\* an argument counts as not given
EnhanceValidation(absent(_)) ==
  \A c \in DOMAIN pc :
    (tool[c] \in EnhanceTools /\ args[c].type \in {"Person", "Organization"}) =>
      LET a == args[c]
          lacking == \/ a.type = "Organization" /\ absent(a.name) /\ absent(a.url)
                     \/ a.type = "Person" /\ absent(a.name)
      IN /\ lacking <=> (Raised(c, "ValueError") /\ resp[c] = NoResp)
         /\ lacking => NoRequest(c)
         /\ ~lacking => sent[c] = 1

\* C2 as stated: validation of a Person or Organization request fails with
\* ValueError, before any request, exactly when (Organization and name and
\* url both unset) or (Person and name unset).
C2_Original == EnhanceValidation(Unset)

\* C2: validation of a Person or Organization request fails with ValueError,
\* before any request, exactly when (Organization and name and url each unset
\* or empty) or (Person and name unset or empty); an Organization request
\* with only a non-empty name, or only a non-empty url, passes.
C2_EnhanceValidation == EnhanceValidation(Missing)

C2_Witness ==
  \E c \in DOMAIN pc :
    /\ tool[c] = "enhance_entity" /\ args[c].type = "Organization"
    /\ args[c].name = Str("") /\ args[c].url = None
    /\ Raised(c, "ValueError") /\ NoRequest(c)

OptionalFields ==
  {"name", "url", "location", "phone", "employer", "title", "school", "ip", "id",
   "threshold"}

\* the keys of a parameter mapping
ParamKeys(params) == {params[j][1] : j \in 1..Len(params)}

\* C3 as stated: in the parameters of an enhance request every optional field
\* left unset is absent and no key carries a null or empty value.
C3_Original ==
  \A c \in DOMAIN pc :
    tool[c] \in EnhanceTools =>
      \A i \in 1..Len(inflight[c]) :
        LET params == inflight[c][i].params
        IN /\ \A f \in OptionalFields : args[c][f] = None => f \notin ParamKeys(params)
           /\ \A j \in 1..Len(params) : params[j][2] # None /\ params[j][2] # Str("")

\* C3: in the parameters of an enhance request every optional field left
\* unset is absent and no key carries a null value; a field that was given,
\* the empty string included, is sent with the value given.
C3_UnsetOmitted ==
  \A c \in DOMAIN pc :
    tool[c] \in EnhanceTools =>
      \A i \in 1..Len(inflight[c]) :
        LET params == inflight[c][i].params
        IN /\ \A f \in OptionalFields : args[c][f] = None => f \notin ParamKeys(params)
           /\ \A j \in 1..Len(params) : params[j][2] # None
           /\ \A f \in OptionalFields :
                args[c][f] # None =>
                  \E j \in 1..Len(params) : params[j][1] = f /\ params[j][2] = args[c][f]

C3_Witness ==
  \E c \in DOMAIN pc :
    /\ tool[c] = "enhance_entity" /\ pc[c] = "awaiting"
    /\ args[c].location = Str("") /\ args[c].phone = None
    /\ \E j \in 1..Len(inflight[c][1].params) :
         inflight[c][1].params[j] = <<"location", Str("")>>
    /\ "phone" \notin ParamKeys(inflight[c][1].params)

\* C4: for each of the three body shapes (object with data, object with
\* results, bare list) holding a non-empty list of well-formed matches, the
\* enhance call returns text with those matches and does not raise.
C4_ThreeShapes ==
  \A c \in DOMAIN pc :
    (tool[c] \in EnhanceTools /\ GotJson(c)
      /\ \/ resp[c].body = Data(List(<<acmeMatch>>))
         \/ resp[c].body = Dict(<< <<"results", List(<<acmeMatch>>)>> >>)
         \/ resp[c].body = List(<<acmeMatch>>))
    => result[c].ok /\ Contains(result[c].text, "Match #1:\n  Confidence Score: 0.853\n")

\* the match list of an enhance body is empty or absent: an object where
\* data and results are each absent, an empty list or null
EmptyOrAbsent(body) ==
  /\ IsDict(body)
  /\ \A k \in {"data", "results"} :
       HasKey(body, k) => (Get(body, k) = None \/ Get(body, k) = List(<<>>))

NoneFound(type) ==
  "Enhanced " \o type \o " Data:\n"
  \o "==================================================\n\n"
  \o "No " \o (IF type = "Organization" THEN "organization" ELSE "person")
  \o " found matching the provided criteria.\n"
  \o "Try:\n"
  \o "- Adding more input parameters (location, url, etc.)\n"
  \o "- Lowering the threshold parameter\n"
  \o "- Using search=True to search beyond the Knowledge Graph"

\* C5: for an enhance body whose match list is empty or absent the call does
\* not raise and returns, under the heading, exactly the "no <type> found"
\* message followed by the three suggestions.
C5_EmptyMatchList ==
  \A c \in DOMAIN pc :
    (tool[c] \in EnhanceTools /\ GotJson(c) /\ EmptyOrAbsent(resp[c].body))
    => result[c].ok /\ result[c].text = NoneFound(args[c].type)

\* the top level of an enhance body is readable: an object whose data is a
\* non-empty list of objects
ReadableTopLevel(body) ==
  /\ IsDict(body) /\ HasKey(body, "data") /\ IsList(Get(body, "data"))
  /\ Get(body, "data").l # <<>>
  /\ \A i \in 1..Len(Get(body, "data").l) : IsDict(Get(body, "data").l[i])

\* C6: for a 2xx enhance response with a readable top level, no shape inside
\* a match makes the call raise.
C6_AnomaliesAbsorbed ==
  \A c \in DOMAIN pc :
    (tool[c] \in EnhanceTools /\ GotJson(c) /\ ReadableTopLevel(resp[c].body))
    => result[c].ok

\* the request ended in a transport failure or a status that is neither 2xx nor 401
OtherFailure(r) ==
  \/ r.net = "error"
  \/ r.net = "ok" /\ ~(r.status >= 200 /\ r.status <= 299) /\ r.status # 401

\* both calls are searches, or both are enhance calls
SameFunction(c, d) == (tool[c] = "dql_search") <=> (tool[d] = "dql_search")

\* C7: a call answered with status 401 fails with an error whose kind (its
\* exception class) differs from the kind of a call of the same function
\* that failed on any other status that is not 2xx or on a transport failure.
C7_UnauthorizedDistinct ==
  \A c, d \in DOMAIN pc :
    (/\ pc[c] = "done" /\ resp[c].net = "ok" /\ resp[c].status = 401
     /\ pc[d] = "done" /\ OtherFailure(resp[d]) /\ SameFunction(c, d))
    => ~result[c].ok /\ ~result[d].ok /\ result[c].cls # result[d].cls

\* C8: a call whose 2xx answer does not parse as JSON fails with an error
\* whose kind (its exception class) differs from the kind of a call of the
\* same function rejected by validation (InvalidArgument) and from the kind
\* of one that failed on a status that is not 2xx or on a transport failure
\* (RemoteError).
C8_MalformedDistinct ==
  \A c, d \in DOMAIN pc :
    (/\ pc[c] = "done" /\ resp[c] = NotJson(200)
     /\ pc[d] = "done" /\ ~result[d].ok /\ SameFunction(c, d)
     /\ resp[d] = NoResp \/ OtherFailure(resp[d]))
    => ~result[c].ok /\ result[c].cls # result[d].cls

\* C9: no step of a search or enhance call writes to standard output.
C9_NoOtherChannel == stdout = <<>>

\* C10: a call that passes validation issues exactly one GET, has at most one
\* request outstanding, has no result before the request completes, and
\* fails without a second attempt when the request ends in a status that is
\* not 2xx or in a transport failure.
C10_SingleRequest ==
  \A c \in DOMAIN pc :
    /\ Len(inflight[c]) <= 1 /\ sent[c] <= 1
    /\ pc[c] = "awaiting" => sent[c] = 1 /\ Len(inflight[c]) = 1 /\ result[c] = NoResult
    /\ (pc[c] = "done" /\ resp[c] # NoResp) => sent[c] = 1 /\ inflight[c] = <<>>
    /\ (pc[c] = "done" /\ (resp[c].net = "error"
                            \/ (resp[c].net = "ok" /\ resp[c].status \notin 200..299)))
       => ~result[c].ok /\ sent[c] = 1 /\ inflight[c] = <<>>

C10_Witness ==
  \E c \in DOMAIN pc :
    /\ pc[c] = "done" /\ resp[c].net = "ok" /\ resp[c].status = 500
    /\ ~result[c].ok /\ sent[c] = 1 /\ inflight[c] = <<>>


\* what the call in slot c shows when it runs with no other call: nothing
\* while idle, its one request while it waits, and then the outcome of its
\* validation or of its answer
Alone(c) ==
  LET a == args[c]
      search == tool[c] = "dql_search"
      valid == IF search THEN DqlValidate(a.num, a.start) ELSE EnhanceValidate(a)
      request == IF search
                 THEN Requests(DQL_ENDPOINT, DqlParams(a.query, a.num, a.start))
                 ELSE Requests(ENHANCE_URL, EnhanceParams(a))
      answer == IF search THEN DqlFinish(a.query, a.start, resp[c])
                ELSE EnhanceFinish(a.type, resp[c])
  IN CASE pc[c] = "idle" -> result[c] = NoResult /\ inflight[c] = <<>>
       [] pc[c] = "awaiting" -> result[c] = NoResult /\ inflight[c] = request
       [] pc[c] = "done" /\ resp[c] = NoResp -> ~valid.ok /\ result[c] = valid
       [] OTHER -> valid.ok /\ result[c] = answer

\* C11: in every interleaving of search and enhance calls, the request and
\* the result of each call are those the call produces when it runs alone
\* with the same arguments and the same answer.
C11_CallsIndependent ==
  \A c \in DOMAIN pc : tool[c] \in EnhanceTools \cup {"dql_search", ""} => Alone(c)

C11_Witness ==
  \E c, d \in DOMAIN pc :
    /\ c # d /\ tool[c] \in EnhanceTools /\ tool[d] \in EnhanceTools
    /\ pc[c] = "done" /\ result[c].ok /\ Contains(result[c].text, "Match #1:")
    /\ pc[d] = "awaiting" /\ args[d] # args[c]


\* the positions of the line ends of s
NewlineAt(s) == {i \in 1..Len(s) : SubSeq(s, i, i) = "\n"}

RECURSIVE Ascending(_)
\* the numbers of S in ascending order
Ascending(S) ==
  IF S = {} THEN <<>>
  ELSE LET m == CHOOSE x \in S : \A y \in S : x <= y
       IN <<m>> \o Ascending(S \ {m})

\* the lines of s: the text before each line end, and what follows the last
\* one when that is not empty
Lines(s) ==
  LET ends == Ascending(NewlineAt(s) \cup (IF s # "" /\ Len(s) \notin NewlineAt(s)
                                           THEN {Len(s) + 1} ELSE {}))
  IN [k \in 1..Len(ends) |->
        SubSeq(s, (IF k = 1 THEN 1 ELSE ends[k - 1] + 1), ends[k] - 1)]

StartsWith(line, prefix) ==
  Len(line) >= Len(prefix) /\ SubSeq(line, 1, Len(prefix)) = prefix

\* line is one of the lines of text
HasLine(text, line) == \E k \in 1..Len(Lines(text)) : Lines(text)[k] = line

IsTextLine(line) == StartsWith(line, "  Text: ")
NotTextLine(line) == ~IsTextLine(line)

\* the records of a search body
Records(body) == IF HasKey(body, "objects") THEN Get(body, "objects").l ELSE <<>>

\* a search body of the shape the endpoint documents: an object whose
\* objects, when present, is a list of records, the text of a record a string
SearchShape(body) ==
  /\ IsDict(body)
  /\ HasKey(body, "objects") => IsList(Get(body, "objects"))
  /\ \A i \in 1..Len(Records(body)) :
       /\ IsDict(Records(body)[i])
       /\ HasKey(Records(body)[i], "text") => IsStr(Get(Records(body)[i], "text"))

\* the call is a search answered 2xx with a body of the documented shape
SearchAnswered(c) ==
  tool[c] = "dql_search" /\ GotJson(c) /\ SearchShape(resp[c].body)

\* the value shown for key k of record o
Shown(o, k) == IF HasKey(o, k) THEN PyStr(Get(o, k)) ELSE "N/A"

RECURSIVE BlockLines(_, _)
\* the lines of the blocks of records i.. of objs, the Text lines left out
BlockLines(objs, i) ==
  IF i > Len(objs) THEN <<>>
  ELSE << "Result " \o ToString(i) \o ":",
          "  Title: " \o Shown(objs[i], "title"),
          "  URL: " \o Shown(objs[i], "pageUrl"),
          "  Type: " \o Shown(objs[i], "type"),
          "  Date: " \o Shown(objs[i], "date"),
          "" >> \o BlockLines(objs, i + 1)

\* C12: the output of a search is the header with the total (hits, 0 when
\* missing) and the range start+1 to start+len(objects), then one block per
\* record in input order, numbered from 1, showing title, URL, type and date
\* with N/A for each absent field; no block when objects is missing.
C12_SearchReport ==
  \A c \in DOMAIN pc :
    SearchAnswered(c) =>
      LET body == resp[c].body
          objs == Records(body)
          hits == IF HasKey(body, "hits") THEN PyStr(Get(body, "hits")) ELSE "0"
      IN /\ result[c].ok
         /\ SelectSeq(Lines(result[c].text), NotTextLine)
              = << "DQL Search Results for: " \o args[c].query,
                   "Total results: " \o hits,
                   "Showing " \o ToString(args[c].start + 1) \o "-"
                     \o ToString(args[c].start + Len(objs)),
                   "" >> \o BlockLines(objs, 1)

C12_Witness ==
  \E c \in DOMAIN pc :
    /\ SearchAnswered(c) /\ args[c].start = 1
    /\ resp[c].body = SearchBodies[5]
    /\ Contains(result[c].text, "Showing 2-4\n\nResult 1:\n  Title: N/A\n")

\* the lines of record i in the output lines
RecordLines(lines, i, n) ==
  LET at(j) == CHOOSE k \in 1..Len(lines) : lines[k] = "Result " \o ToString(j) \o ":"
  IN SubSeq(lines, at(i), IF i < n THEN at(i + 1) - 1 ELSE Len(lines))

\* C13: the block of a record whose text has more than 300 characters holds
\* one Text line with the first 300 characters and then "..."; with 1 to 300
\* characters, one Text line with the text unchanged; with the text absent
\* or empty, no Text line.
C13_TextExcerpt ==
  \A c \in DOMAIN pc :
    SearchAnswered(c) =>
      /\ result[c].ok
      /\ \A i \in 1..Len(Records(resp[c].body)) :
           LET obj == Records(resp[c].body)[i]
               text == IF HasKey(obj, "text") THEN Get(obj, "text").s ELSE ""
               shown == SelectSeq(RecordLines(Lines(result[c].text), i,
                                              Len(Records(resp[c].body))), IsTextLine)
           IN IF text = "" THEN shown = <<>>
              ELSE IF Len(text) > 300
              THEN shown = << "  Text: " \o SubSeq(text, 1, 300) \o "..." >>
              ELSE shown = << "  Text: " \o text >>

C13_Witness ==
  \E c \in DOMAIN pc :
    /\ SearchAnswered(c) /\ resp[c].body = SearchBodies[1]
    /\ Contains(result[c].text, "  Text: " \o Repeat("x", 300) \o "...\n")
    /\ ~Contains(result[c].text, Repeat("x", 301))


\* the entity of a body that holds one match under data
OnlyEntity(body) == Get(Get(body, "data").l[1], "entity")

\* the body holds one match with an entity whose locations is a list of one
\* object with a name, and which has no location
ListOfObjectForm(body) ==
  /\ IsDict(body) /\ HasKey(body, "data") /\ IsList(Get(body, "data"))
  /\ Len(Get(body, "data").l) = 1 /\ HasKey(Get(body, "data").l[1], "entity")
  /\ LET e == OnlyEntity(body)
     IN /\ HasKey(e, "locations") /\ ~HasKey(e, "location")
        /\ IsList(Get(e, "locations")) /\ Len(Get(e, "locations").l) = 1
        /\ HasKey(Get(e, "locations").l[1], "name")
        /\ IsStr(Get(Get(e, "locations").l[1], "name"))

\* the same body with location as the plain string in place of locations
PlainStringForm(body) ==
  LET e == OnlyEntity(body)
      name == Get(Get(e, "locations").l[1], "name")
      match == Get(body, "data").l[1]
      plain == Dict([i \in 1..Len(e.d) |->
                       IF e.d[i][1] = "locations" THEN <<"location", name>> ELSE e.d[i]])
  IN Data(List(<< Dict([i \in 1..Len(match.d) |->
                          IF match.d[i][1] = "entity" THEN <<"entity", plain>>
                          ELSE match.d[i]]) >>))

\* C14: for either entity type, a body whose entity carries locations as a
\* list of one object with a name is rendered as the same body with location
\* as that plain string: the same Location line and the same text otherwise.
C14_LocationForms ==
  \A c \in DOMAIN pc :
    (tool[c] \in EnhanceTools /\ GotJson(c) /\ ListOfObjectForm(resp[c].body)) =>
      LET name == Get(Get(OnlyEntity(resp[c].body), "locations").l[1], "name").s
          plain == EnhanceFinish(args[c].type, Response(200, PlainStringForm(resp[c].body)))
      IN /\ result[c].ok /\ plain.ok
         /\ HasLine(result[c].text, "  Location: " \o name)
         /\ HasLine(plain.text, "  Location: " \o name)
         /\ result[c].text = plain.text


\* two runs of one tool with the same arguments, answered 2xx with the same
\* JSON body
SameRun(c, d) ==
  /\ c # d /\ GotJson(c) /\ GotJson(d)
  /\ tool[c] = tool[d] /\ args[c] = args[d] /\ resp[c].body = resp[d].body

C16_TestCallsRegistered ==
  \A c \in DOMAIN pc : \A k \in 1..Len(TestCalls) :
    (pc[c] # "idle" /\ tool[c] = TestCalls[k].name) =>
      /\ tool[c] \in DOMAIN RegisteredTools
      /\ DOMAIN TestCalls[k].arguments \subseteq RegisteredTools[tool[c]]
      /\ ~Raised(c, "ToolError")


\* the body holds one match under data, with an entity that is an object
OneMatch(body) ==
  /\ IsDict(body) /\ HasKey(body, "data") /\ IsList(Get(body, "data"))
  /\ Len(Get(body, "data").l) = 1 /\ HasKey(Get(body, "data").l[1], "entity")
  /\ IsDict(OnlyEntity(body)) /\ OnlyEntity(body).d # <<>>

IsEmployeesLine(line) == StartsWith(line, "  Employees: ")

\* one of the three pairs of minimum and maximum keys is present
HasEmployeePair(entity) ==
  \E k \in {"nbEmployeesMin", "nbEmployeesMax", "employeesMin", "employeesMax",
            "employeeCountMin", "employeeCountMax"} : HasKey(entity, k)

\* C17: an Organization match yields at most one Employees line; the line
\* with the nbEmployees count is printed when none of the three pairs is
\* present, and never when one of them is.
C17_EmployeesOnce ==
  \A c \in DOMAIN pc :
    (tool[c] \in EnhanceTools /\ args[c].type = "Organization"
       /\ GotJson(c) /\ OneMatch(resp[c].body) /\ result[c].ok) =>
      LET entity == OnlyEntity(resp[c].body)
          shown == SelectSeq(Lines(result[c].text), IsEmployeesLine)
          count == "  Employees: " \o PyStr(GetOr(entity, "nbEmployees", None))
      IN /\ Len(shown) <= 1
         /\ HasEmployeePair(entity) => \A k \in 1..Len(shown) : shown[k] # count
         /\ (~HasEmployeePair(entity) /\ HasKey(entity, "nbEmployees")) => shown = <<count>>


\* the match list of an enhance body that is an object: the list under data,
\* or else under results
MatchList(body) ==
  IF HasKey(body, "data") /\ Truthy(Get(body, "data")) THEN Get(body, "data")
  ELSE IF HasKey(body, "results") /\ Truthy(Get(body, "results")) THEN Get(body, "results")
  ELSE List(<<>>)

\* every element of the list v is a string
AllStr(v) == \A i \in 1..Len(v.l) : IsStr(v.l[i])

\* the value v under key k of an entity has one of the shapes the formatter
\* reads for that key
DocumentedValue(k, v) ==
  CASE k = "location" -> IsStr(v) \/ IsDict(v)
    [] k = "locations" -> IsList(v) /\ \A i \in 1..Len(v.l) : IsStr(v.l[i]) \/ IsDict(v.l[i])
    [] k \in {"industry", "industries", "category", "categories"} ->
         IsStr(v) \/ (IsList(v) /\ AllStr(v))
    [] k \in {"description", "summary", "about"} -> IsStr(v)
    [] k \in {"educations", "education", "schools"} ->
         IsList(v) /\ \A i \in 1..Len(v.l) :
           IsDict(v.l[i]) /\ \A j \in 1..Len(v.l[i].d) :
             IsStr(v.l[i].d[j][2]) \/ IsDict(v.l[i].d[j][2])
    [] k \in {"employments", "employment", "jobs", "currentEmployment"} ->
         IsDict(v) \/ (IsList(v) /\ \A i \in 1..Len(v.l) : IsDict(v.l[i]))
    [] OTHER -> v.t \in {"str", "int", "float", "bool"}

\* the match has no entity data: entity is absent, null or an empty object
NoEntity(m) ==
  ~HasKey(m, "entity") \/ Get(m, "entity") = None \/ Get(m, "entity") = Dict(<<>>)

\* a match of the documented type: score a number, errors a list, entity
\* absent or empty or an object with values of the documented shapes
TypedMatch(m) ==
  /\ IsDict(m)
  /\ HasKey(m, "score") => Get(m, "score").t \in {"float", "int"}
  /\ HasKey(m, "errors") => IsList(Get(m, "errors")) /\ AllStr(Get(m, "errors"))
  /\ ~NoEntity(m) =>
       /\ IsDict(Get(m, "entity"))
       /\ \A j \in 1..Len(Get(m, "entity").d) :
            DocumentedValue(Get(m, "entity").d[j][1], Get(m, "entity").d[j][2])

\* the call is an enhance call answered 2xx with an object whose match list
\* holds at least one match, every match of the documented type
MatchesAnswered(c) ==
  /\ tool[c] \in EnhanceTools /\ GotJson(c) /\ IsDict(resp[c].body)
  /\ IsList(MatchList(resp[c].body)) /\ MatchList(resp[c].body).l # <<>>
  /\ \A i \in 1..Len(MatchList(resp[c].body).l) : TypedMatch(MatchList(resp[c].body).l[i])

Divider == "----------------------------------------"
IsHeadingOrDivider(line) == StartsWith(line, "Match #") \/ line = Divider

RECURSIVE HeadingsAndDividers(_)
\* Match #1 to Match #n with a divider between each two
HeadingsAndDividers(n) ==
  IF n = 1 THEN << "Match #1:" >>
  ELSE HeadingsAndDividers(n - 1) \o << Divider, "Match #" \o ToString(n) \o ":" >>

\* C18: for a match list of n >= 1 matches, with or without entity data, the
\* output holds the headings Match #1 to Match #n in order and n-1 divider
\* lines, one between each two consecutive headings, none before the first
\* heading and none after the last.
C18_HeadingsAndDividers ==
  \A c \in DOMAIN pc :
    MatchesAnswered(c) =>
      /\ result[c].ok
      /\ SelectSeq(Lines(result[c].text), IsHeadingOrDivider)
           = HeadingsAndDividers(Len(MatchList(resp[c].body).l))

C18_Witness ==
  \E c \in DOMAIN pc :
    /\ MatchesAnswered(c) /\ resp[c].body = EnhanceBodies[23]
    /\ result[c].ok /\ HasLine(result[c].text, Divider)
    /\ HasLine(result[c].text, "  No entity data found in this match.")

IsContent(line) == line # "" /\ line # Divider

\* the lines of match i of n in the output lines, without its heading, the
\* divider and the empty lines
MatchLines(lines, i, n) ==
  LET at(j) == CHOOSE k \in 1..Len(lines) : lines[k] = "Match #" \o ToString(j) \o ":"
  IN SelectSeq(SubSeq(lines, at(i) + 1, IF i < n THEN at(i + 1) - 1 ELSE Len(lines)),
               IsContent)

IsScoreOrErrors(line) ==
  StartsWith(line, "  Confidence Score: ") \/ StartsWith(line, "  Errors: ")
NotScoreOrErrors(line) == ~IsScoreOrErrors(line)

\* C19: when a match has no entity data the call does not fail; for that
\* match the output holds, after its score and errors, the "no entity data"
\* note and no other line; and every later match is formatted as it is when
\* it is the only match.
C19_NoEntityData ==
  \A c \in DOMAIN pc :
    (MatchesAnswered(c) /\ \E i \in 1..Len(MatchList(resp[c].body).l) :
                             NoEntity(MatchList(resp[c].body).l[i])) =>
      LET ms == MatchList(resp[c].body).l
          lines == Lines(result[c].text)
          alone(j) == Lines(EnhanceFinish(args[c].type, Response(200, Data(List(<<ms[j]>>)))).text)
      IN /\ result[c].ok
         /\ \A i \in 1..Len(ms) :
              NoEntity(ms[i]) =>
                /\ SelectSeq(MatchLines(lines, i, Len(ms)), NotScoreOrErrors)
                     = << "  No entity data found in this match." >>
                /\ \A j \in (i + 1)..Len(ms) :
                     MatchLines(lines, j, Len(ms)) = MatchLines(alone(j), 1, 1)

C19_Witness ==
  \E c \in DOMAIN pc :
    /\ MatchesAnswered(c) /\ resp[c].body = EnhanceBodies[27]
    /\ args[c].type = "Organization" /\ result[c].ok
    /\ HasLine(result[c].text, "  No entity data found in this match.")
    /\ HasLine(result[c].text, "Match #3:") /\ HasLine(result[c].text, "  Name: Big")

=============================================================================
